---- MODULE Spec2Model ----
(***************************************************************************)
(* Model of the seekable-format writer (pkg/writer.go): writerImpl with    *)
(* its Write, WriteMany, Close and writeSeekTable methods, the default     *)
(* environment writerEnvImpl over an io.Writer sink, and the sync.Once     *)
(* that guards Close.  The sink is a recording io.Writer: it keeps every   *)
(* call made on it together with the number of bytes it accepted and the   *)
(* error it answered; the byte stream is derived from that record.         *)
(*                                                                         *)
(* The writer takes no lock of its own.  One producer goroutine calls      *)
(* Write and WriteMany, other goroutines call Close, and the owner of the  *)
(* io.Writer may close it at any time; their steps interleave freely.  A   *)
(* step ends where the goroutine touches state another goroutine can see:  *)
(* the entry list (Encode, EndStream), the sink, the once.  The read of    *)
(* the entry list by EndStream is not ordered with the append by Encode:   *)
(* it sees the list as it was before or after the append, as the steps     *)
(* fall, or, while the Write call that appends has not returned, with the  *)
(* new entry not written yet.                                              *)
(***************************************************************************)
EXTENDS Integers, Sequences, FiniteSets, TLC

VARIABLES
    sink,          \* the calls made on the io.Writer, oldest first
    frameEntries,  \* writerImpl.frameEntries
    onceDone,      \* the done flag of writerImpl.once
    th,            \* per goroutine: where it is inside Close, and its err
    prod,          \* the producer: where it is inside Write or WriteMany
    last,          \* the producer's call that returned last, until the next
    submitted,     \* every chunk handed to Write so far, in order
    count,         \* Close calls begun, Write calls and pulls, failures
    sinkOpen,      \* whether the underlying io.Writer is still open
    twin           \* two WriteMany runs from one writer state (SpecTwin)

vars == <<sink, frameEntries, onceDone, th, prod, last, submitted, count,
          sinkOpen, twin>>

-----------------------------------------------------------------------------
(* Bounds of the model. *)

\* Write calls plus FrameSource pulls in one run.
MaxOps == 2
\* Close calls begun in one run, over all callers.
MaxCloses == 2
\* Failures in one run: calls on which the encoder, EndStream or the open
\* sink fails, reads of an entry not written yet, and the closing of the
\* sink by its owner.
MaxFaults == 1
\* Goroutines that call Close.
Closers == {1, 2}

\* Chunks a caller submits; the zero-length chunk is one of them.
Chunks == {<<>>, <<5, 6>>}

Nil == "nil"
ErrEncode == "encode error"
ErrSink == "sink error"
ErrEndStream == "end stream error"
ErrPartial == "partial write"
ErrSource == "source error"

-----------------------------------------------------------------------------
(* The sink: an io.Writer that answers (n, err) with 0 <= n <= len(p).     *)

\* What the sink does with one call: how much it accepts, and whether it
\* answers an error.
\* Accepted whole; cut short without an error; stopped early with an error;
\* refused with an error.
SinkOutcomes == { [acc |-> "all", err |-> FALSE],
                  [acc |-> "part", err |-> FALSE],
                  [acc |-> "part", err |-> TRUE],
                  [acc |-> "none", err |-> TRUE] }

SinkOk == [acc |-> "all", err |-> FALSE]

\* The answer of a sink its owner has closed.
SinkRefuses == [acc |-> "none", err |-> TRUE]

\* What the sink can answer to a call made now: a sink that was closed
\* refuses; an open one fails while failures are left.
SinkAnswers ==
    IF ~sinkOpen THEN {SinkRefuses}
    ELSE IF count.faults < MaxFaults THEN SinkOutcomes ELSE {SinkOk}

\* Whether the encoder can fail on a call made now.
EncoderAnswers == IF count.faults < MaxFaults THEN BOOLEAN ELSE {FALSE}

\* The failures so far, with the call that answered out or encFails; the
\* refusals of a closed sink are not counted again.
Faults(failed) ==
    IF failed /\ sinkOpen THEN count.faults + 1 ELSE count.faults

Accepted(p, out) ==
    CASE out.acc = "none" -> 0
      [] out.acc = "part" -> IF Len(p) = 0 THEN 0 ELSE Len(p) - 1
      [] OTHER -> Len(p)

IoWrite(s, op, p, out) ==
    Append(s, [op |-> op, p |-> p, n |-> Accepted(p, out), err |-> out.err])

\* An environment that puts a frame in front of what the sink holds.
WriteFrame_AtFront(s, p, out) ==
    <<[op |-> "WriteFrame", p |-> p, n |-> Accepted(p, out),
       err |-> out.err]>> \o s

\* writerEnvImpl.WriteFrame: w.w.Write(p)
WriteFrame(s, p, out) == IoWrite(s, "WriteFrame", p, out)

\* writerEnvImpl.WriteSeekTable: w.w.Write(p)
WriteSeekTable(s, p, out) == IoWrite(s, "WriteSeekTable", p, out)

RECURSIVE BytesUpTo(_, _)
\* Number of bytes the first k calls put on the sink.
BytesUpTo(s, k) == IF k = 0 THEN 0 ELSE BytesUpTo(s, k - 1) + s[k].n

-----------------------------------------------------------------------------
(* Frame codec and seek-table codec.                                       *)

\* Little-endian 32-bit field.
LE32(v) == << v % 256, (v \div 256) % 256, (v \div 65536) % 256,
              (v \div 16777216) % 256 >>

\* 0xFD2FB528, the Zstd frame magic, little-endian.
ZstdMagic == <<40, 181, 47, 253>>
\* 0x184D2A5E, skippable frame magic variant 0xE, little-endian.
SkippableMagic == <<94, 42, 77, 24>>
\* 0x8F92EAB1, seekable magic, little-endian.
SeekableMagic == <<177, 234, 146, 143>>

\* The injected encoder: a self-contained frame with src as its payload.
EncodeAll(src) == ZstdMagic \o src

\* writerImpl.Encode: encode one frame and record its entry.
Encode(entries, src, encFails) ==
    IF encFails
    THEN [dst |-> <<>>, err |-> ErrEncode, entries |-> entries]
    ELSE LET dst == EncodeAll(src)
         IN [dst |-> dst, err |-> Nil,
             entries |-> Append(entries,
                           [CompSize |-> Len(dst), DecompSize |-> Len(src)])]

RECURSIVE MarshalEntries(_)
MarshalEntries(entries) ==
    IF entries = <<>> THEN <<>>
    ELSE LE32(entries[1].CompSize) \o LE32(entries[1].DecompSize)
             \o MarshalEntries(Tail(entries))

\* writerImpl.EndStream: the seek table as one skippable frame, or no
\* bytes and an error when the serialization fails.
EndStream(entries, endFails) ==
    IF endFails
    THEN [bytes |-> <<>>, err |-> ErrEndStream]
    ELSE LET body == MarshalEntries(entries) \o LE32(Len(entries)) \o <<0>>
                         \o SeekableMagic
         IN [bytes |-> SkippableMagic \o LE32(Len(body)) \o body,
             err |-> Nil]

-----------------------------------------------------------------------------
(* writerImpl.Write *)

\* A Write that answers the compressed length.
WriteResult_CompressedLen(src, dst, n, err) ==
    IF err THEN [n |-> 0, err |-> ErrSink]
    ELSE IF n # Len(dst) THEN [n |-> 0, err |-> ErrPartial]
    ELSE [n |-> Len(dst), err |-> Nil]

\* A Write that does not compare the accepted count with the frame length.
WriteResult_NoShortCheck(src, dst, n, err) ==
    IF err THEN [n |-> 0, err |-> ErrSink]
    ELSE [n |-> Len(src), err |-> Nil]

\* A Write that answers, on a short write, the bytes of the chunk the sink
\* took.
WriteResult_PartialCount(src, dst, n, err) ==
    IF err THEN [n |-> 0, err |-> ErrSink]
    ELSE IF n # Len(dst)
         THEN [n |-> IF n > Len(dst) - Len(src)
                     THEN n - (Len(dst) - Len(src)) ELSE 0,
               err |-> ErrPartial]
    ELSE [n |-> Len(src), err |-> Nil]

\* The tail of Write, from the answer (n, err) of WriteFrame on.
WriteResult(src, dst, n, err) ==
    IF err THEN [n |-> 0, err |-> ErrSink]
    ELSE IF n # Len(dst) THEN [n |-> 0, err |-> ErrPartial]
    ELSE [n |-> Len(src), err |-> Nil]

\* The producer between two calls.
IdleProducer ==
    [pc |-> "idle", op |-> "none", i |-> 0, src |-> <<>>, dst |-> <<>>,
     closed |-> FALSE, log |-> <<>>]

\* No call of the producer has returned, or one has begun since.
NoCall == [writes |-> <<>>, call |-> [op |-> "none"]]

\* What a Write call returned: r is its result, from and to the length of
\* the sink log before and after its sink call (equal when it made none),
\* closed whether the once was done when it was invoked.
WriteRecord(p, src, r, from, to, closed, encFails) ==
    [op |-> "Write", via |-> IF p.op = "Write" THEN "direct" ELSE "many",
     src |-> src, n |-> r.n, err |-> r.err, from |-> from, to |-> to,
     closed |-> closed, encFails |-> encFails]

\* What a WriteMany call returned: the Write calls it issued, one per frame
\* its source yielded, the pulls it made, the item its last pull yielded
\* and its result.
ManyRecord(p, log, end, err) ==
    [writes |-> log,
     call |-> [op |-> "WriteMany", pulled |-> p.i, end |-> end, err |-> err]]

\* A loop that drops the error of Write and goes on pulling.
LoopReturns_IgnoresWriteError(err) == FALSE

\* WriteMany, after s.Write(frame): if err != nil { return err }
LoopReturns(err) == err # Nil

\* A Write call of the producer p returns with the record rec: to the
\* caller, or into the loop of WriteMany, which returns its error or goes
\* on to the next pull.
WriteReturns(p, rec) ==
    IF p.op = "Write"
    THEN /\ last' = [writes |-> <<>>, call |-> rec]
         /\ prod' = IdleProducer
    ELSE IF LoopReturns(rec.err)
    THEN /\ last' = ManyRecord(p, Append(p.log, rec),
                               [kind |-> "frame", data |-> rec.src], rec.err)
         /\ prod' = IdleProducer
    ELSE /\ last' = NoCall
         /\ prod' = [p EXCEPT !.pc = "pull", !.log = Append(@, rec),
                              !.src = <<>>, !.dst = <<>>, !.closed = FALSE]

\* Write up to the call of WriteFrame: enc is what s.Encode(src) answered.
\* On its error Write returns (0, err); otherwise the frame is in hand and
\* the sink is called next.
Encoded(p, src, enc) ==
    /\ frameEntries' = enc.entries
    /\ submitted' = Append(submitted,
                           [src |-> src, encFails |-> enc.err # Nil])
    /\ IF enc.err # Nil
       THEN WriteReturns(p, WriteRecord(p, src, [n |-> 0, err |-> enc.err],
                                        Len(sink), Len(sink), onceDone, TRUE))
       ELSE /\ last' = NoCall
            /\ prod' = [p EXCEPT !.pc = "frame", !.src = src,
                                 !.dst = enc.dst, !.closed = onceDone]

\* Write is called: dst, err := s.Encode(src), and the return on its error.
Write(src, encFails) ==
    /\ prod.pc = "idle"
    /\ count.ops < MaxOps
    /\ count' = [count EXCEPT !.ops = @ + 1, !.faults = Faults(encFails)]
    /\ Encoded([IdleProducer EXCEPT !.op = "Write"], src,
               Encode(frameEntries, src, encFails))
    /\ UNCHANGED <<sink, onceDone, th, sinkOpen>>

\* n, err := s.env.WriteFrame(dst) and the rest of Write, of a direct call
\* or of one issued by WriteMany.
WriteFrameReturn(out) ==
    /\ prod.pc = "frame"
    /\ sink' = WriteFrame(sink, prod.dst, out)
    /\ WriteReturns(prod,
           WriteRecord(prod, prod.src,
                       WriteResult(prod.src, prod.dst,
                                   Accepted(prod.dst, out), out.err),
                       Len(sink), Len(sink) + 1, prod.closed, FALSE))
    /\ count' = [count EXCEPT !.faults = Faults(out # SinkOk)]
    /\ UNCHANGED <<frameEntries, onceDone, th, submitted, sinkOpen>>

-----------------------------------------------------------------------------
(* writerImpl.WriteMany *)

\* One pull of the FrameSource: a frame (possibly zero-length), the nil
\* end-marker, or an error.
SourceItems == [kind : {"frame"}, data : Chunks]
                  \cup {[kind |-> "nil"], [kind |-> "err"]}

Frames == {it \in SourceItems : it.kind = "frame"}

\* runtime.GOMAXPROCS(0), the default of the concurrency option.
GOMAXPROCS == 2

\* WithConcurrency(concurrency), applied to the options struct.
WithConcurrency(concurrency, options) ==
    [options EXCEPT !.concurrency = concurrency]

\* The options tried, each element the argument of one WithConcurrency:
\* one worker more than the default, then none.
Options == <<GOMAXPROCS + 1, 0>>

\* The option lists a WriteMany call is given: no option, or both, the
\* later one overriding the earlier.
OptionLists == {<<>>, Options}

RECURSIVE ApplyOptions(_, _)
\* for _, o := range options { o(&opts) }
ApplyOptions(opts, options) ==
    IF options = <<>> THEN opts
    ELSE ApplyOptions(WithConcurrency(options[1], opts), Tail(options))

\* The options struct WriteMany works with.
writeManyOptions(options) ==
    ApplyOptions([concurrency |-> GOMAXPROCS], options)

\* A WriteMany that hands the source to opts.concurrency workers and,
\* with none, writes one frame itself and returns.
WriteManyStart_NoWorkers(options) ==
    IF writeManyOptions(options).concurrency <= 0
    THEN [IdleProducer EXCEPT !.pc = "pull", !.op = "Write"]
    ELSE [IdleProducer EXCEPT !.pc = "pull", !.op = "WriteMany"]

\* WriteMany is entered: the options are applied, the loop is about to
\* make its first pull; it reads no field of opts.
WriteManyStart(options) ==
    LET opts == writeManyOptions(options)
    IN [IdleProducer EXCEPT !.pc = "pull", !.op = "WriteMany"]

\* A loop that takes a zero-length frame for the end-marker.
PullEnds_EmptyEnds(item) ==
    \/ item.kind = "nil"
    \/ item.kind = "frame" /\ item.data = <<>>

\* if frame == nil { return nil }
PullEnds(item) == item.kind = "nil"

\* One turn of the loop up to the call of WriteFrame: p is the producer
\* with the pull counted, item what frames() answered.
Pulled(p, item, encFails) ==
    IF item.kind = "err"
    THEN /\ last' = ManyRecord(p, p.log, item, ErrSource)
         /\ prod' = IdleProducer
         /\ UNCHANGED <<frameEntries, submitted>>
    ELSE IF PullEnds(item)
    THEN /\ last' = ManyRecord(p, p.log, item, Nil)
         /\ prod' = IdleProducer
         /\ UNCHANGED <<frameEntries, submitted>>
    ELSE Encoded(p, item.data, Encode(frameEntries, item.data, encFails))

\* The producer p makes its next pull: frame, err := frames().  The frame
\* it yields, if any, goes to s.Write(frame).
NextPull(p, item, encFails) ==
    /\ count.ops < MaxOps
    /\ item.kind # "frame" => ~encFails
    /\ count' = [count EXCEPT !.ops = @ + 1, !.faults = Faults(encFails)]
    /\ Pulled([p EXCEPT !.i = @ + 1], item, encFails)
    /\ UNCHANGED <<sink, onceDone, th, sinkOpen>>

\* WriteMany is called, up to the WriteFrame call of its first frame.
WriteMany(options, item, encFails) ==
    /\ prod.pc = "idle"
    /\ NextPull(WriteManyStart(options), item, encFails)

\* The loop of WriteMany comes round: the next pull, up to the WriteFrame
\* call of its frame.
WriteManyLoop(item, encFails) ==
    /\ prod.pc = "pull"
    /\ NextPull(prod, item, encFails)

-----------------------------------------------------------------------------
(* writerImpl.Close and writerImpl.writeSeekTable *)

\* multierr.Append: nil when both are nil, the one that is not nil, or an
\* error that holds both.
MultierrAppend(a, b) ==
    IF b = Nil THEN a ELSE IF a = Nil THEN b ELSE a \o "; " \o b

\* A writeSeekTable that closes the underlying writer after the write.
writeSeekTable_ClosesSink(s, end, out) ==
    IF end.err # Nil
    THEN [sink |-> s, closes |-> FALSE, err |-> end.err]
    ELSE [sink |-> WriteSeekTable(s, end.bytes, out), closes |-> TRUE,
          err |-> IF out.err THEN ErrSink ELSE Nil]

\* writeSeekTable, with end the answer of s.EndStream() and out the answer
\* of the sink.  When EndStream answers an error, that error is returned
\* and no call is made on the environment.  Otherwise the one call on the
\* environment is WriteSeekTable: the count the sink answers is dropped,
\* only its error is looked at, and no call closes the sink.
writeSeekTable(s, end, out) ==
    IF end.err # Nil
    THEN [sink |-> s, closes |-> FALSE, err |-> end.err]
    ELSE [sink |-> WriteSeekTable(s, end.bytes, out), closes |-> FALSE,
          err |-> IF out.err THEN ErrSink ELSE Nil]

\* A Close without the once: the done flag is never seen set.
OnceIsDone_Never(done) == FALSE

\* sync.Once: what a caller of once.Do reads from the done flag.
OnceIsDone(done) == done

\* No answer of EndStream is held.
NoEnd == [bytes |-> <<>>, err |-> Nil]

\* A goroutine that has not called Close, or is entering it: the named
\* result err is nil.  did says the goroutine ran the function of the
\* once, slow that it took the slow path of once.Do, end holds the answer
\* of EndStream between its return and the return of writeSeekTable.
\* With pc = "lock" the goroutine is about to take the mutex of the once,
\* with pc = "table" it holds the mutex and EndStream has answered, with
\* pc = "store" it holds the mutex and the function of the once has
\* returned, with pc = "ret" the call has returned err.
Idle == [pc |-> "idle", err |-> Nil, did |-> FALSE, slow |-> FALSE,
         end |-> NoEnd]

\* The mutex of the once is held from the second read of done until done
\* is stored.
MutexFree == \A t \in Closers : th[t].pc \notin {"table", "store"}

\* Close is entered, the named result err starts as nil, and once.Do reads
\* the done flag without the lock (fast path): when it is set, Close
\* returns.  The goroutines are numbered by their first Close call.
CloseBegin(t) ==
    /\ th[t].pc \in {"idle", "ret"}
    /\ \A u \in Closers : u < t => th[u].pc # "idle"
    /\ count.close < MaxCloses
    /\ th' = [th EXCEPT ![t] = [Idle EXCEPT !.pc = IF OnceIsDone(onceDone)
                                                   THEN "ret" ELSE "lock"]]
    /\ count' = [count EXCEPT !.close = @ + 1]
    /\ UNCHANGED <<sink, frameEntries, onceDone, prod, last, submitted,
                   sinkOpen>>

\* What a read of the entry list that is not ordered with the append of
\* Encode can find in the place of the entry being appended: the entry,
\* or the place with the entry not written yet.
TornEntries(e) == {e, [CompSize |-> 0, DecompSize |-> 0]}

\* What s.EndStream() can read of the entry list.  Nothing orders the read
\* with the append of a Write call that has not returned; between two
\* calls of the producer the list is read as it is.
EntryReads ==
    IF prod.pc = "frame" /\ count.faults < MaxFaults
    THEN {[frameEntries EXCEPT ![Len(frameEntries)] = e] :
             e \in TornEntries(frameEntries[Len(frameEntries)])}
    ELSE {frameEntries}

\* Whether s.EndStream() can fail on a call made now.
EndStreamAnswers == IF count.faults < MaxFaults THEN BOOLEAN ELSE {FALSE}

\* once.Do, slow path: take the mutex and read done again.  When it is
\* set, release the mutex, and Close returns; otherwise the function
\* starts: writeSeekTable calls s.EndStream(), which reads the entry list
\* as entries and answers the seek-table bytes or an error.
OnceDoSlow(t, entries, endFails) ==
    /\ th[t].pc = "lock"
    /\ MutexFree
    /\ IF OnceIsDone(onceDone)
       THEN /\ entries = frameEntries /\ ~endFails
            /\ th' = [th EXCEPT ![t].pc = "ret", ![t].slow = TRUE]
            /\ count' = count
       ELSE /\ endFails => entries = frameEntries
            /\ th' = [th EXCEPT ![t].pc = "table", ![t].slow = TRUE,
                                ![t].end = EndStream(entries, endFails)]
            /\ count' = [count EXCEPT !.faults =
                            Faults(endFails \/ entries # frameEntries)]
    /\ UNCHANGED <<sink, frameEntries, onceDone, prod, last, submitted,
                   sinkOpen>>

\* The function of the once from the answer of EndStream on.  When
\* EndStream answered an error, writeSeekTable returns it and the sink is
\* not called; otherwise the seek-table bytes go to the sink, which
\* answers out.  Then err = multierr.Append(err, the error returned) and
\* the function returns; done is not stored yet and the mutex is held.
OnceDoFunc(t, out) ==
    /\ th[t].pc = "table"
    /\ LET r == writeSeekTable(sink, th[t].end, out)
       IN /\ sink' = r.sink
          /\ sinkOpen' = (sinkOpen /\ ~r.closes)
          /\ th' = [th EXCEPT ![t] = [pc |-> "store",
                                      err |-> MultierrAppend(@.err, r.err),
                                      did |-> TRUE, slow |-> TRUE,
                                      end |-> NoEnd]]
    /\ count' = [count EXCEPT !.faults =
                    Faults(th[t].end.err = Nil /\ out # SinkOk)]
    /\ UNCHANGED <<frameEntries, onceDone, prod, last, submitted>>

\* A once that marks itself done only when its function left no error, so
\* that a later Close tries again.
OnceDoReturn_RetryOnFailure(t) ==
    /\ th[t].pc = "store"
    /\ onceDone' = (th[t].err = Nil)
    /\ th' = [th EXCEPT ![t].pc = "ret"]
    /\ UNCHANGED <<sink, frameEntries, prod, last, submitted, count,
                   sinkOpen>>

\* once.Do after its function has returned: the deferred done.Store(1)
\* and Unlock run, and Close returns err.  Whatever the function
\* returned, the once is done.  Between the store and the unlock no other
\* goroutine can act differently than after both: a Close entering reads
\* done set, one waiting for the mutex still waits.
OnceDoReturn(t) ==
    /\ th[t].pc = "store"
    /\ onceDone' = TRUE
    /\ th' = [th EXCEPT ![t].pc = "ret"]
    /\ UNCHANGED <<sink, frameEntries, prod, last, submitted, count,
                   sinkOpen>>

\* The owner of the io.Writer closes it; the writer is not told.
SinkClosedByCaller ==
    /\ sinkOpen
    /\ count.faults < MaxFaults
    /\ sinkOpen' = FALSE
    /\ count' = [count EXCEPT !.faults = @ + 1]
    /\ UNCHANGED <<sink, frameEntries, onceDone, th, prod, last, submitted>>

-----------------------------------------------------------------------------

\* No WriteMany run is being compared with another.
NoTwin == [phase |-> "one"]

Init ==
    /\ sink = <<>>
    /\ frameEntries = <<>>
    /\ onceDone = FALSE
    /\ th = [t \in Closers |-> Idle]
    /\ prod = IdleProducer
    /\ last = NoCall
    /\ submitted = <<>>
    /\ count = [close |-> 0, ops |-> 0, faults |-> 0]
    /\ sinkOpen = TRUE
    /\ twin = NoTwin

Next ==
    \/ \E src \in Chunks, encFails \in EncoderAnswers :
           Write(src, encFails) /\ UNCHANGED twin
    \/ \E out \in SinkAnswers : WriteFrameReturn(out) /\ UNCHANGED twin
    \/ \E options \in OptionLists, item \in SourceItems,
          encFails \in EncoderAnswers :
           WriteMany(options, item, encFails) /\ UNCHANGED twin
    \/ \E item \in SourceItems, encFails \in EncoderAnswers :
           WriteManyLoop(item, encFails) /\ UNCHANGED twin
    \/ \E t \in Closers : CloseBegin(t) /\ UNCHANGED twin
    \/ \E t \in Closers, entries \in EntryReads,
          endFails \in EndStreamAnswers :
           OnceDoSlow(t, entries, endFails) /\ UNCHANGED twin
    \/ \E t \in Closers, out \in SinkAnswers :
           OnceDoFunc(t, out) /\ UNCHANGED twin
    \/ \E t \in Closers : OnceDoReturn(t) /\ UNCHANGED twin
    \/ SinkClosedByCaller /\ UNCHANGED twin

Spec == Init /\ [][Next]_vars

-----------------------------------------------------------------------------------------------------------------------------------------------------
(* Two runs from one writer state.  Until WriteMany is called there is one *)
(* run.  From the call on there are two: each has its own writer, sink and *)
(* callers, both as they were at the call, and its own option list.  The   *)
(* two runs take the same steps with the same answers of the source, the   *)
(* encoder, the sink and EndStream, in the same order: Close calls and the *)
(* owner of the sink act beside WriteMany in both.  The variables hold one *)
(* run and twin.other the other; a step is taken by the run in the         *)
(* variables, the runs change places, and the other run takes the step.    *)

\* The writer, its sink and its callers.
WriterState ==
    [sink |-> sink, frameEntries |-> frameEntries, onceDone |-> onceDone,
     th |-> th, prod |-> prod, last |-> last, submitted |-> submitted,
     count |-> count, sinkOpen |-> sinkOpen]

\* No step is waiting for the other run.
NoStep == [act |-> "none"]

\* A step other than a WriteMany call is taken.  With one run nothing is
\* kept.  With two, the run in the variables either takes the step first,
\* and the step is kept for the other run, or it takes the step the other
\* run has taken.
TwinTurn(step) ==
    IF twin.phase = "one" THEN twin' = twin
    ELSE IF twin.phase = "lead"
    THEN twin' = [twin EXCEPT !.phase = "swap", !.pending = step]
    ELSE /\ twin.phase = "follow"
         /\ step = twin.pending
         /\ twin' = [twin EXCEPT !.phase = "lead", !.pending = NoStep]

\* WriteMany is called with options.  With one run the state at the call
\* becomes the state of a second run, which is to make the call with an
\* option list of its own and the same first answer (step).  With two
\* runs the call is a step like the others, each run with its own options.
TwinCalled(options, step) ==
    IF twin.phase = "one"
    THEN twin' = [phase |-> "swap", pending |-> step, other |-> WriterState,
                  opts |-> [here |-> writeManyOptions(options),
                            there |-> writeManyOptions(options)],
                  start |-> Len(sink)]
    ELSE IF twin.phase = "lead"
    THEN twin' = [twin EXCEPT !.phase = "swap", !.pending = step,
                              !.opts.here = writeManyOptions(options)]
    ELSE /\ twin.phase = "follow"
         /\ step = twin.pending
         /\ twin' = [twin EXCEPT !.phase = "lead", !.pending = NoStep,
                                 !.opts.here = writeManyOptions(options)]

\* The runs change places: the run that has taken the step is set aside
\* and the other run is the one in the variables.
TwinSwap ==
    /\ twin.phase = "swap"
    /\ twin' = [twin EXCEPT !.phase = "follow", !.other = WriterState,
                            !.opts = [here |-> @.there, there |-> @.here]]
    /\ sink' = twin.other.sink
    /\ frameEntries' = twin.other.frameEntries
    /\ onceDone' = twin.other.onceDone
    /\ th' = twin.other.th
    /\ prod' = twin.other.prod
    /\ last' = twin.other.last
    /\ submitted' = twin.other.submitted
    /\ count' = twin.other.count
    /\ sinkOpen' = twin.other.sinkOpen

NextTwin ==
    \/ \E src \in Chunks, encFails \in EncoderAnswers :
           /\ Write(src, encFails)
           /\ TwinTurn([act |-> "Write", src |-> src, encFails |-> encFails])
    \/ \E out \in SinkAnswers :
           /\ WriteFrameReturn(out)
           /\ TwinTurn([act |-> "WriteFrameReturn", out |-> out])
    \/ \E options \in OptionLists, item \in SourceItems,
          encFails \in EncoderAnswers :
           /\ WriteMany(options, item, encFails)
           /\ TwinCalled(options, [act |-> "WriteMany", item |-> item,
                                   encFails |-> encFails])
    \/ \E item \in SourceItems, encFails \in EncoderAnswers :
           /\ WriteManyLoop(item, encFails)
           /\ TwinTurn([act |-> "WriteManyLoop", item |-> item,
                        encFails |-> encFails])
    \/ \E t \in Closers :
           CloseBegin(t) /\ TwinTurn([act |-> "CloseBegin", t |-> t])
    \/ \E t \in Closers, entries \in EntryReads,
          endFails \in EndStreamAnswers :
           /\ OnceDoSlow(t, entries, endFails)
           /\ TwinTurn([act |-> "OnceDoSlow", t |-> t, entries |-> entries,
                        endFails |-> endFails])
    \/ \E t \in Closers, out \in SinkAnswers :
           /\ OnceDoFunc(t, out)
           /\ TwinTurn([act |-> "OnceDoFunc", t |-> t, out |-> out])
    \/ \E t \in Closers :
           OnceDoReturn(t) /\ TwinTurn([act |-> "OnceDoReturn", t |-> t])
    \/ SinkClosedByCaller /\ TwinTurn([act |-> "SinkClosedByCaller"])
    \/ TwinSwap

SpecTwin == Init /\ [][NextTwin]_vars

-----------------------------------------------------------------------------
(* Reading the stream back: the frame decoder and the seek-table parser.   *)

\* The injected decoder, inverse of EncodeAll; "corrupt" for anything that
\* is not one frame.
DecodeAll(frame) ==
    IF Len(frame) >= 4 /\ SubSeq(frame, 1, 4) = ZstdMagic
    THEN SubSeq(frame, 5, Len(frame)) ELSE "corrupt"

ParseLE32(b, i) ==
    b[i] + 256 * b[i + 1] + 65536 * b[i + 2] + 16777216 * b[i + 3]

\* Parses one seek-table frame from its footer back, as a reader does.
ParseSeekTable(p) ==
    IF \/ Len(p) < 17
       \/ SubSeq(p, Len(p) - 3, Len(p)) # SeekableMagic
       \/ p[Len(p) - 4] # 0
    THEN [ok |-> FALSE, entries |-> <<>>]
    ELSE LET N == ParseLE32(p, Len(p) - 8)
             start == Len(p) - (8 + 8 * N + 9)
         IN IF \/ start # 0
               \/ SubSeq(p, 1, 4) # SkippableMagic
               \/ ParseLE32(p, 5) # 8 * N + 9
            THEN [ok |-> FALSE, entries |-> <<>>]
            ELSE [ok |-> TRUE,
                  entries |-> [k \in 1..N |->
                      [CompSize |-> ParseLE32(p, 9 + 8 * (k - 1)),
                       DecompSize |-> ParseLE32(p, 13 + 8 * (k - 1))]]]

-----------------------------------------------------------------------------
(* Properties of the writer.                                               *)

\* The Write calls that have returned and whose results are at hand: the
\* last direct call or the ones the last WriteMany issued, and the ones
\* the WriteMany under way has issued so far.
ReturnedWrites ==
    (IF last.call.op = "Write" THEN <<last.call>> ELSE last.writes)
        \o prod.log

\* The payloads of the WriteFrame calls on the sink s, in order.
FramePayloads(s) ==
    LET fr == SelectSeq(s, LAMBDA c : c.op = "WriteFrame")
    IN [i \in 1..Len(fr) |-> fr[i].p]

\* C1: a Write (direct or issued by WriteMany) invoked once the writer is
\* closed fails with a closed-writer error and makes no call on the sink.
C1_WriteAfterCloseFails ==
    \A i \in 1..Len(ReturnedWrites) : LET w == ReturnedWrites[i] IN
        w.closed => (w.err = "closed writer" /\ w.to = w.from)

\* The frames fr are those of the submissions enc, in order, but for the
\* frame that is encoded and not handed to the sink yet.
FramesOf(fr, enc) ==
    /\ Len(fr) = Len(enc) - (IF prod.pc = "frame" THEN 1 ELSE 0)
    /\ \A i \in 1..Len(fr) : fr[i] = EncodeAll(enc[i].src)

\* The Write calls of log that reached the sink put the frames of their
\* chunks there, one behind the other in the order of the log.
InLogOrder(log) ==
    \A i \in 1..Len(log) :
        log[i].to = log[i].from + 1 =>
            /\ sink[log[i].to].op = "WriteFrame"
            /\ DecodeAll(sink[log[i].to].p) = log[i].src
            /\ \A j \in 1..(i - 1) : log[j].to <= log[i].from

\* C2: the frames reach the sink in the order their chunks were submitted,
\* each exactly once: the WriteFrame payloads on the sink are the encoded
\* chunks of the submissions that passed the encoder, in submission order,
\* none missing in the middle and none twice, and the frames a WriteMany
\* call wrote lie on the sink in the order its source yielded them.
C2_FramesInSubmissionOrder ==
    /\ FramesOf(FramePayloads(sink),
                SelectSeq(submitted, LAMBDA x : ~x.encFails))
    /\ InLogOrder(last.writes)
    /\ InLogOrder(prod.log)

\* C2 witness: a WriteMany call has put two different frames on the sink,
\* with a Close running in between or not.
C2_Witness ==
    /\ Len(prod.log) = 2
    /\ prod.log[1].to = prod.log[1].from + 1
    /\ prod.log[2].to = prod.log[2].from + 1
    /\ prod.log[1].src # prod.log[2].src

\* The step is taken inside a Close call of goroutine t.
CloseStep(t) == th'[t] # th[t]

\* C3: Close is idempotent.  The Close that runs the once serializes the
\* entry list as it reads it into one well-formed seek table and appends
\* it to the sink in one call, the only sink call of any Close step; when
\* its function has returned the once is done; every Close step taken
\* once the once is done leaves the sink and the entry list as they are,
\* and a Close call begun then returns nil without having written.
C3_CloseIdempotent ==
    [][ \A t \in Closers :
          CloseStep(t) =>
            /\ frameEntries' = frameEntries
            /\ (th[t].pc = "lock" /\ th'[t].pc = "table"
                    /\ th'[t].end.err = Nil) =>
                  LET tbl == ParseSeekTable(th'[t].end.bytes)
                  IN /\ tbl.ok
                     /\ Len(tbl.entries) = Len(frameEntries)
            /\ IF th[t].pc = "table" /\ th[t].end.err = Nil
               THEN sink' = Append(sink, [op |-> "WriteSeekTable",
                                          p |-> th[t].end.bytes,
                                          n |-> sink'[Len(sink')].n,
                                          err |-> sink'[Len(sink')].err])
               ELSE sink' = sink
            /\ (th[t].pc = "store") => onceDone'
            /\ onceDone =>
                  /\ sink' = sink
                  /\ onceDone'
                  /\ th'[t].pc = "ret" /\ th'[t].err = Nil /\ ~th'[t].did
      ]_vars

\* C3 witness: after a Close that wrote the seek table, a Close call begun
\* later has returned, and the sink holds the one seek table.
C3_Witness ==
    /\ \E t \in Closers : th[t].pc = "ret" /\ th[t].did /\ th[t].err = Nil
    /\ \E t \in Closers : th[t].pc = "ret" /\ ~th[t].did /\ ~th[t].slow
    /\ Cardinality({i \in 1..Len(sink) : sink[i].op = "WriteSeekTable"}) = 1

\* C4: Close calls that run at the same time observe the same outcome:
\* when one caller has run the once and another, who entered before it was
\* done, has waited for it, the other has not written and both return the
\* same result.
C4_ConcurrentCloseSameOutcome ==
    \A t1, t2 \in Closers :
        ( /\ t1 # t2
          /\ th[t1].pc = "ret" /\ th[t1].did
          /\ th[t2].pc = "ret" /\ th[t2].slow ) =>
            /\ ~th[t2].did
            /\ th[t1].err = th[t2].err

RECURSIVE SumCompSize(_)
SumCompSize(entries) ==
    IF entries = <<>> THEN 0
    ELSE entries[1].CompSize + SumCompSize(Tail(entries))

\* C5: the compressed sizes recorded in a seek table add up to the byte
\* offset at which that seek table starts on the sink.
C5_SizesSumToTableOffset ==
    \A i \in 1..Len(sink) :
        sink[i].op = "WriteSeekTable" =>
            SumCompSize(ParseSeekTable(sink[i].p).entries)
                = BytesUpTo(sink, i - 1)

\* C6: a Write that succeeds has made exactly one WriteFrame call, whose
\* payload is one frame that decodes to the whole input and was accepted
\* whole, and it answers the input length.
C6_OneFramePerWrite ==
    \A i \in 1..Len(ReturnedWrites) : LET w == ReturnedWrites[i] IN
        w.err = Nil =>
            /\ w.to = w.from + 1
            /\ sink[w.to].op = "WriteFrame"
            /\ DecodeAll(sink[w.to].p) = w.src
            /\ sink[w.to].n = Len(sink[w.to].p)
            /\ w.n = Len(w.src)

\* C6 witness: a Write of a zero-length chunk has succeeded.
C6_Witness ==
    /\ last.call.op = "Write"
    /\ last.call.err = Nil
    /\ last.call.src = <<>>
    /\ last.call.to = last.call.from + 1

\* C7: when the sink accepts fewer bytes than the frame without an error,
\* Write answers 0 and a partial-write error; no Write succeeds on a frame
\* the sink did not accept whole.
C7_ShortWriteIsError ==
    \A i \in 1..Len(ReturnedWrites) : LET w == ReturnedWrites[i] IN
        w.to = w.from + 1 =>
            /\ (~sink[w.to].err /\ sink[w.to].n < Len(sink[w.to].p)) =>
                   (w.err = ErrPartial /\ w.n = 0)
            /\ sink[w.to].n < Len(sink[w.to].p) => w.err # Nil

\* C7 witness: the sink cut a frame short without an error.
C7_Witness ==
    /\ last.call.op = "Write"
    /\ last.call.to = last.call.from + 1
    /\ ~sink[last.call.to].err
    /\ sink[last.call.to].n < Len(sink[last.call.to].p)

\* The seek-table bytes on the sink: what the sink accepted of every
\* WriteSeekTable call.
SeekTableBytesOnSink ==
    LET st == SelectSeq(sink, LAMBDA c : c.op = "WriteSeekTable")
    IN [i \in 1..Len(st) |-> SubSeq(st[i].p, 1, st[i].n)]

\* C8: the sink holds seek-table bytes only once a Close has written them
\* and returned success: a Close that returned an error has left no
\* seek-table byte on the sink, a Close that did the write and returned
\* nil has left the complete seek table there, and without a Close no
\* seek-table call is made.
C8_SeekTableIffCloseOk ==
    /\ count.close = 0 => SeekTableBytesOnSink = <<>>
    /\ \A t \in Closers :
          (th[t].pc = "ret" /\ th[t].did) =>
              IF th[t].err = Nil
              THEN /\ Len(SeekTableBytesOnSink) = 1
                   /\ ParseSeekTable(SeekTableBytesOnSink[1]).ok
              ELSE \A i \in 1..Len(SeekTableBytesOnSink) :
                      SeekTableBytesOnSink[i] = <<>>

\* C9: the sink holds data frames followed by at most one seek-table
\* frame, and nothing is ever appended after the seek-table frame.
C9_SeekTableStaysLast ==
    \A i \in 1..Len(sink) :
        IF sink[i].op = "WriteSeekTable" THEN i = Len(sink)
        ELSE sink[i].op = "WriteFrame"

\* The frame blocks present on the sink among its first k calls.
FrameBlocks(k) ==
    SelectSeq(SubSeq(sink, 1, k),
              LAMBDA c : c.op = "WriteFrame" /\ c.n > 0)

\* C10: when the seek table is serialized, the entry list has one entry
\* per frame block present on the sink, in the same order, and entry k is
\* the record of the k-th block.
C10_EntriesMatchFrames ==
    \A i \in 1..Len(sink) :
        sink[i].op = "WriteSeekTable" =>
            LET entries == ParseSeekTable(sink[i].p).entries
                blocks == FrameBlocks(i - 1)
            IN /\ Len(entries) = Len(blocks)
               /\ \A k \in 1..Len(blocks) :
                     /\ entries[k].CompSize = blocks[k].n
                     /\ entries[k].DecompSize = Len(DecodeAll(blocks[k].p))

\* C11: Close never closes the underlying sink.  No step of a Close call,
\* first or repeated, successful or failed, alone or beside a Write,
\* changes whether the sink is open; the step that ends the function of
\* the once makes exactly one call on the sink, the seek-table write,
\* unless the serialization failed, and every other Close step makes none.
C11_CloseLeavesSinkOpen ==
    [][ \A t \in Closers :
          CloseStep(t) =>
              /\ sinkOpen' = sinkOpen
              /\ IF th[t].pc = "table" /\ th[t].end.err = Nil
                 THEN /\ Len(sink') = Len(sink) + 1
                      /\ SubSeq(sink', 1, Len(sink)) = sink
                      /\ sink'[Len(sink')].op = "WriteSeekTable"
                 ELSE sink' = sink
      ]_vars

\* C11 witness: a Close that failed to write the seek table and a Close
\* begun after it have both returned, and the sink is still open.
C11_Witness ==
    /\ sinkOpen
    /\ \E t \in Closers : th[t].pc = "ret" /\ th[t].did /\ th[t].err # Nil
    /\ \E t \in Closers : th[t].pc = "ret" /\ ~th[t].did /\ ~th[t].slow
    /\ \E i \in 1..Len(sink) : sink[i].op = "WriteSeekTable" /\ sink[i].err

\* The encoder and the sink took the chunk of the Write call w without a
\* failure: the frame reached the sink and was accepted whole.
TakenWhole(w) ==
    /\ ~w.encFails
    /\ w.to = w.from + 1
    /\ ~sink[w.to].err
    /\ sink[w.to].n = Len(sink[w.to].p)

\* The seek-table write attempts made so far, failed ones included.
SeekTableAttempts == {i \in 1..Len(sink) : sink[i].op = "WriteSeekTable"}

\* C12: a WriteMany whose source yields k frames and then the end-marker,
\* with no source, encoder or sink error, returns nil after k + 1 pulls and
\* has issued one Write per yielded frame, zero-length ones included, each
\* putting its frame on the sink, whole, behind the one before; a call
\* returns nil only on the end-marker; and as long as no Close is called
\* the once is not done and no seek-table call is on the sink.
C12_WriteManyWritesAllFrames ==
    /\ last.call.op = "WriteMany" =>
          /\ ( /\ last.call.end.kind = "nil"
               /\ \A i \in 1..Len(last.writes) :
                     TakenWhole(last.writes[i]) ) =>
                 /\ last.call.err = Nil
                 /\ last.call.pulled = Len(last.writes) + 1
                 /\ \A i \in 1..Len(last.writes) :
                       LET w == last.writes[i]
                       IN /\ w.err = Nil
                          /\ w.n = Len(w.src)
                          /\ sink[w.to].op = "WriteFrame"
                          /\ DecodeAll(sink[w.to].p) = w.src
                          /\ i > 1 => last.writes[i - 1].to <= w.from
          /\ last.call.err = Nil => last.call.end.kind = "nil"
    /\ count.close = 0 => (~onceDone /\ SeekTableAttempts = {})

\* C12 witness: a WriteMany whose source yielded a zero-length frame and
\* then the end-marker has returned nil with that one frame written, and
\* no Close was called.
C12_Witness ==
    /\ last.call.op = "WriteMany"
    /\ last.call.end.kind = "nil"
    /\ last.call.err = Nil
    /\ Len(last.writes) = 1
    /\ last.writes[1].src = <<>>
    /\ sink[last.writes[1].to].p = EncodeAll(<<>>)
    /\ count.close = 0

\* What a Write call answers for what the encoder and the sink did with
\* its chunk.
ErrorOf(w) ==
    IF w.encFails THEN ErrEncode
    ELSE IF sink[w.to].err THEN ErrSink
    ELSE IF sink[w.to].n # Len(sink[w.to].p) THEN ErrPartial
    ELSE Nil

\* C13: WriteMany stops at the first failure.  Every Write it issues
\* answers the failure of the encoder or the sink; the loop goes on to a
\* further pull only after a Write without error; when the source answers
\* an error or a Write fails, WriteMany returns that error with that pull
\* its last, the failing Write having made at most one sink call and none
\* when the encoder failed; the frames written before are on the sink,
\* whole, and once the call has returned no frame follows them until the
\* next call.
C13_WriteManyStopsAtFailure ==
    /\ \A i \in 1..Len(ReturnedWrites) :
          ReturnedWrites[i].err = ErrorOf(ReturnedWrites[i])
    /\ \A i \in 1..Len(prod.log) : prod.log[i].err = Nil
    /\ last.call.op = "WriteMany" =>
          LET c == last.call
              k == Len(last.writes)
          IN /\ \A i \in 1..(k - 1) : last.writes[i].err = Nil
             /\ \A i \in 1..k :
                   last.writes[i].err = Nil =>
                       /\ sink[last.writes[i].to].op = "WriteFrame"
                       /\ sink[last.writes[i].to].n
                              = Len(EncodeAll(last.writes[i].src))
             /\ c.end.kind = "err" =>
                   /\ c.err = ErrSource
                   /\ c.pulled = k + 1
                   /\ \A i \in 1..k : last.writes[i].err = Nil
             /\ c.end.kind = "frame" =>
                   /\ c.err # Nil
                   /\ c.err = last.writes[k].err
                   /\ c.pulled = k
                   /\ last.writes[k].src = c.end.data
                   /\ last.writes[k].to - last.writes[k].from
                          = IF last.writes[k].encFails THEN 0 ELSE 1
             /\ (prod.log = <<>> /\ prod.pc # "frame" /\ k > 0) =>
                   \A i \in (last.writes[k].to + 1)..Len(sink) :
                       sink[i].op # "WriteFrame"

\* C13 witness: a WriteMany wrote one frame, failed on the sink write of
\* the second and returned the sink's error.
C13_Witness ==
    /\ last.call.op = "WriteMany"
    /\ Len(last.writes) = 2
    /\ last.writes[1].err = Nil
    /\ last.writes[2].to = last.writes[2].from + 1
    /\ last.call.err = ErrSink
    /\ last.call.pulled = 2

\* C14: the seek-table write is attempted at most once in the lifetime of
\* the writer, whatever the attempt answered: the sink never sees a second
\* WriteSeekTable call, so after a failed first Close no Close call puts a
\* seek table on the sink, and a Close that returns without having made
\* the attempt returns nil.
C14_SeekTableAttemptedOnce ==
    /\ Cardinality(SeekTableAttempts) <= 1
    /\ \A t \in Closers :
          (th[t].pc = "ret" /\ ~th[t].did) => th[t].err = Nil

\* C14 witness: the first Close failed with nothing of the seek table
\* accepted, and a Close begun later has returned nil without writing.
C14_Witness ==
    /\ \E t \in Closers : th[t].pc = "ret" /\ th[t].did /\ th[t].err = ErrSink
    /\ \E t \in Closers :
          th[t].pc = "ret" /\ ~th[t].did /\ ~th[t].slow /\ th[t].err = Nil
    /\ \E i \in SeekTableAttempts : sink[i].err /\ sink[i].n = 0
    /\ sinkOpen

\* C15: every Write (direct or issued by WriteMany) answers either the whole
\* input length with no error or 0 with an error, never a count in between;
\* and a Write whose encoding failed returns the encoder's error without
\* having made a call on the sink.
C15_WriteAllOrNothing ==
    \A i \in 1..Len(ReturnedWrites) : LET w == ReturnedWrites[i] IN
        /\ \/ w.err = Nil /\ w.n = Len(w.src)
           \/ w.err # Nil /\ w.n = 0
        /\ w.encFails => (w.err = ErrEncode /\ w.to = w.from)

\* C15 witness: the sink took part of the frame of a two-byte chunk, chunk
\* bytes included, and Write answered 0 with an error.
C15_Witness ==
    /\ last.call.op = "Write"
    /\ Len(last.call.src) = 2
    /\ last.call.to = last.call.from + 1
    /\ sink[last.call.to].n > Len(sink[last.call.to].p) - Len(last.call.src)
    /\ sink[last.call.to].n < Len(sink[last.call.to].p)
    /\ last.call.n = 0
    /\ last.call.err # Nil

\* The Write calls of log follow one another: each makes at most one sink
\* call, and begins on the sink no earlier than the one before it ended.
OneAtATime(log) ==
    \A i \in 1..Len(log) :
        /\ log[i].to <= log[i].from + 1
        /\ i > 1 => log[i - 1].to <= log[i].from

\* C16: WithConcurrency has no effect.  Two runs start from the same
\* writer state, call WriteMany with any two option lists and take the
\* same steps: the same answers of the source, the encoder and the sink,
\* and the same Close calls and closing of the sink beside the call.
\* Whenever both have taken the same steps, they have made the identical
\* sequence of sink calls, hold the identical entry list, have issued the
\* identical Write calls and, when WriteMany has returned, have the
\* identical result (return value, pulls made); and the Write calls of a
\* WriteMany follow one another, never two frame writes at a time.
C16_ConcurrencyHasNoEffect ==
    /\ twin.phase = "lead" =>
          /\ sink = twin.other.sink
          /\ frameEntries = twin.other.frameEntries
          /\ prod.log = twin.other.prod.log
          /\ prod.pc = twin.other.prod.pc
          /\ last.call.op = twin.other.last.call.op
          /\ last.call.op = "WriteMany" =>
                last.call.err = twin.other.last.call.err
          /\ last = twin.other.last
    /\ OneAtATime(last.writes)
    /\ OneAtATime(prod.log)

\* C16 witness: two runs, one with the default concurrency and one with
\* none, have both pulled a frame, written it to the sink and returned at
\* the end-marker, while a Close call put the seek table on the sink
\* between the call of WriteMany and the write of the frame.
C16_Witness ==
    /\ twin.phase = "lead"
    /\ prod.pc = "idle"
    /\ {twin.opts.here.concurrency, twin.opts.there.concurrency}
           = {0, GOMAXPROCS}
    /\ last.call.op = "WriteMany"
    /\ last.call.err = Nil
    /\ Len(last.writes) = 1
    /\ last.writes[1].err = Nil
    /\ twin.start = 0
    /\ Len(sink) = 2
    /\ sink[1].op = "WriteSeekTable"
    /\ sink[2].op = "WriteFrame"

=============================================================================
